---- MODULE Spec2Model ----
(***************************************************************************)
(* Model of src/build_template/main.py: the pipeline that rebuilds the     *)
(* template directory from the working project.                            *)
(*                                                                         *)
(* Text is a sequence of tokens: a token stands for a run of characters    *)
(* that no search string splits.  A file name is a text, a path is a       *)
(* sequence of names relative to the root of its tree, and a tree is a     *)
(* function from the paths that exist to their nodes.  A token that starts *)
(* with a dot holds no other dot, and no other token holds a dot.          *)
(***************************************************************************)
EXTENDS Integers, Sequences, FiniteSets, TLC

\* ---------------------------------------------------------------- text

\* Python's `search in text`
RECURSIVE ContainsFrom(_, _, _)
ContainsFrom(text, search, i) ==
    IF i + Len(search) - 1 > Len(text) THEN FALSE
    ELSE IF SubSeq(text, i, i + Len(search) - 1) = search THEN TRUE
    ELSE ContainsFrom(text, search, i + 1)

Contains(text, search) == ContainsFrom(text, search, 1)

\* Python's str.replace: leftmost occurrences, not overlapping; an empty
\* search matches before every character and at the end.
RECURSIVE ReplaceFrom(_, _, _, _)
ReplaceFrom(text, search, replace, i) ==
    IF search = <<>> THEN
        IF i > Len(text) THEN replace
        ELSE replace \o <<text[i]>> \o ReplaceFrom(text, search, replace, i + 1)
    ELSE IF i + Len(search) - 1 > Len(text) THEN SubSeq(text, i, Len(text))
    ELSE IF SubSeq(text, i, i + Len(search) - 1) = search
         THEN replace \o ReplaceFrom(text, search, replace, i + Len(search))
    ELSE <<text[i]>> \o ReplaceFrom(text, search, replace, i + 1)

\* (a replace of the first occurrence alone)
StrReplaceFirst(text, search, replace) ==
    LET S == {i \in 1..Len(text) : SubSeq(text, i, i + Len(search) - 1) = search}
    IN  IF S = {} \/ search = <<>> THEN text
        ELSE LET i == CHOOSE k \in S : \A m \in S : k <= m
             IN  SubSeq(text, 1, i - 1) \o replace
                 \o SubSeq(text, i + Len(search), Len(text))

StrReplace(text, search, replace) == ReplaceFrom(text, search, replace, 1)

EndsWith(text, tail) ==
    /\ Len(tail) <= Len(text)
    /\ SubSeq(text, Len(text) - Len(tail) + 1, Len(text)) = tail

\* The tokens that start with a dot.
DotTokens ==
    {".py", ".toml", ".jinja", ".pyc", ".pyo", ".pyd", ".yml", ".yaml", ".md",
     ".txt", ".gitignore", ".github", ".DS_Store", ".ipynb_checkpoints",
     ".pre-commit-config", ".zarr"}

\* str.rfind('.') in tokens: the last token that starts with a dot, 0 if none
LastDot(name) ==
    LET S == {i \in 1..Len(name) : name[i] \in DotTokens}
    IN  IF S = {} THEN 0 ELSE CHOOSE i \in S : \A j \in S : j <= i

\* pathlib's PurePath.suffix: from the last dot, unless the name starts with it
Suffix(name) ==
    IF LastDot(name) > 1 THEN SubSeq(name, LastDot(name), Len(name)) ELSE <<>>

\* pathlib's PurePath.stem
Stem(name) ==
    IF LastDot(name) > 1 THEN SubSeq(name, 1, LastDot(name) - 1) ELSE name

\* ---------------------------------------------------------------- trees

Dir == [kind |-> "dir", content |-> <<>>]
File(c) == [kind |-> "file", content |-> c]
Root == <<>>
\* a directory that does not exist
NoTree == <<>>

Parent(p) == SubSeq(p, 1, Len(p) - 1)
Name(p) == p[Len(p)]
IsPrefix(p, q) == Len(p) <= Len(q) /\ SubSeq(q, 1, Len(p)) = p
Prefixes(p) == {SubSeq(p, 1, n) : n \in 0..Len(p)}

Exists(t, p) == p \in DOMAIN t
IsDir(t, p) == p \in DOMAIN t /\ t[p].kind = "dir"
IsFile(t, p) == p \in DOMAIN t /\ t[p].kind = "file"

Restrict(t, S) == [p \in S |-> t[p]]

\* shutil.rmtree(p) of a directory, Path.unlink() of a file
Remove(t, p) == Restrict(t, {q \in DOMAIN t : ~IsPrefix(p, q)})

\* Path.mkdir(parents=True, exist_ok=True)
MkDirs(t, p) ==
    [q \in DOMAIN t \cup Prefixes(p) |-> IF q \in DOMAIN t THEN t[q] ELSE Dir]

\* The subtree of `from` at sp, put at dp of t (shutil.copytree, shutil.copy2,
\* os.rename): what t holds under dp is replaced.
Graft(t, from, sp, dp) ==
    LET kept == {q \in DOMAIN t : ~IsPrefix(dp, q)}
        moved == {q \in DOMAIN from : IsPrefix(sp, q)}
        Dest(q) == dp \o SubSeq(q, Len(sp) + 1, Len(q))
        new == {Dest(q) : q \in moved}
    IN  [r \in kept \cup new |->
            IF r \in new
            THEN from[CHOOSE q \in moved : Dest(q) = r]
            ELSE t[r]]

\* ------------------------------------------------ constants of main.py

\* Names of the working project, as texts.
N(tok) == <<tok>>
PKG == "fractal_tasks_template"
INIT_PY == <<"__init__", ".py">>
PYPROJECT == <<"pyproject", ".toml">>

to_be_included ==
    << N("src"), N("tests"), PYPROJECT, N(".gitignore"),
       <<".pre-commit-config", ".yaml">>, N(".github") >>

to_be_excluded ==
    << <<N("src"), N("build_template")>>,
       <<N("tests"), N("copier")>>,
       <<N(".github"), N("workflows"), <<"copier_ci", ".yml">>>>,
       <<N(".github"), N("workflows"), <<"github_release", ".yaml">>>>,
       <<N(".github"), N("workflows"), <<"github_release", ".yml">>>> >>

\* A pattern "*" + tail (star) or the whole name (not star).
_exclusion_patterns ==
    << [star |-> TRUE, tail |-> <<".pyc">>],
       [star |-> TRUE, tail |-> <<".pyo">>],
       [star |-> TRUE, tail |-> <<".pyd">>],
       [star |-> FALSE, tail |-> <<"__pycache__">>],
       [star |-> FALSE, tail |-> <<".DS_Store">>],
       [star |-> FALSE, tail |-> <<".ipynb_checkpoints">>] >>

\* replace -> search, in the order of the dictionary
_fix_mappings ==
    << [replace |-> <<"{{ ", "'{{'", " }}", "  ", "matrix.python-version", " ",
                      "{{ ", "'{{'", " }}", " }}">>,
        search |-> <<"{{ ", "matrix.python-version", " }}">>],
       [replace |-> <<"{{ ", "'{{'", " }}", "  ", "matrix.os", " ",
                      "{{ ", "'{{'", " }}", " }}">>,
        search |-> <<"{{ ", "matrix.os", " }}">>],
       [replace |-> <<>>, search |-> <<"# --- #">>] >>

JINJA == <<".jinja">>

\* "{{ " + key + " }}"
Placeholder(key) == <<"{{ ">> \o key \o <<" }}">>

\* "{% if " + condition + " %}" + stem + "{% endif %}" + ".jinja"
ConditionalName(condition, stem) ==
    <<"{% if ">> \o condition \o <<" %}">> \o stem \o <<"{% endif %}">> \o JINJA

\* ------------------------------------------------------------- helpers

\* PurePath.match(pattern) of a relative pattern of one component: the
\* pattern is matched against the last component of the path alone.
PathMatch(p, pattern) ==
    IF pattern.star THEN EndsWith(Name(p), pattern.tail)
    ELSE Name(p) = pattern.tail

Skipped(p) ==
    \E i \in 1..Len(_exclusion_patterns) : PathMatch(p, _exclusion_patterns[i])

\* (a generator that skips nothing)
path_generator_all(t) == {p \in DOMAIN t : p # Root}

\* path_generator(root): what root.rglob("*") yields, less the skipped paths.
\* rglob descends into every directory, a skipped one too.
path_generator(t) == {p \in DOMAIN t : p # Root /\ ~Skipped(p)}

\* copy_any(src, dst_dir), src a path of the tree `from`
copy_any(t, from, src, dst_dir) ==
    LET dst == Append(dst_dir, Name(src))
    IN  IF ~Exists(from, src) THEN t
        ELSE IF IsDir(from, src)
        THEN Graft(MkDirs(IF Exists(t, dst) THEN Remove(t, dst) ELSE t, dst_dir),
                   from, src, dst)
        ELSE LET made == MkDirs(t, dst_dir)
             IN  IF IsDir(made, dst)
                 THEN Graft(made, from, src, Append(dst, Name(src)))
                 ELSE Graft(made, from, src, dst)

\* (a copy that takes src away, as shutil.move does)
copy_any_moved(from, src) == IF Exists(from, src) THEN Remove(from, src) ELSE from

\* what copy_any(src, dst_dir) leaves of the tree it reads: shutil.copytree
\* and shutil.copy2 open src for reading and write below dst_dir alone
copy_any_source(from, src) == from

\* (a removal that unlinks files and leaves directories)
ensure_removed_file(t, path) == IF IsFile(t, path) THEN Remove(t, path) ELSE t

\* ensure_removed(path)
ensure_removed(t, path) ==
    IF IsDir(t, path) THEN Remove(t, path)
    ELSE IF Exists(t, path) THEN Remove(t, path)
    ELSE t

\* replace_in_file(path, search, replace): its return value ...
replace_in_file_changed(t, path, search) == Contains(t[path].content, search)

\* ... and the tree it leaves
replace_in_file(t, path, search, replace) ==
    IF Contains(t[path].content, search)
    THEN [t EXCEPT ![path].content = StrReplace(@, search, replace)]
    ELSE t

\* move_path(old, new): the exception it ends with, "" if it returns.
\* new.parent.mkdir fails on a file in the way; shutil.move finds no source
\* once the removal of `new` has taken `old` with it, and refuses to move a
\* directory into itself.
move_path_raises(t, old, new) ==
    IF ~Exists(t, old) THEN ""
    ELSE IF IsFile(t, Parent(new)) THEN "FileExistsError"
    ELSE IF \E q \in Prefixes(Parent(new)) : IsFile(t, q)
         THEN "NotADirectoryError"
    ELSE IF IsPrefix(new, old) THEN "FileNotFoundError"
    ELSE IF IsPrefix(old, new) THEN "shutil.Error"
    ELSE ""

\* (a move that leaves `old` where it was)
move_path_copies(t, old, new) ==
    IF ~Exists(t, old) THEN t
    ELSE LET made == MkDirs(t, Parent(new))
             freed == IF Exists(made, new) THEN Remove(made, new) ELSE made
         IN  Graft(freed, freed, old, new)

\* move_path(old, new): the tree it leaves
move_path(t, old, new) ==
    IF ~Exists(t, old) THEN t
    ELSE IF move_path_raises(t, old, new) \in
                {"FileExistsError", "NotADirectoryError"} THEN t
    ELSE LET made == MkDirs(t, Parent(new))
             freed == IF Exists(made, new) THEN Remove(made, new) ELSE made
         IN  IF move_path_raises(t, old, new) # "" THEN freed
             ELSE Graft(Remove(freed, old), freed, old, new)

\* ---------------------------------------------------------------- inputs

\* The tree with these <<path, node>> entries and a root directory.
Tree(entries) ==
    [p \in {Root} \cup {e[1] : e \in entries} |->
        IF p = Root THEN Dir ELSE (CHOOSE e \in entries : e[1] = p)[2]]

THRESH_PY == <<"thresholding", "_label_task", ".py">>
README == <<"README", ".md">>

\* A working project: a package, its tests, the build script.
SourceProject ==
    Tree({ <<<<N("src")>>, Dir>>,
           <<<<N("src"), N(PKG)>>, Dir>>,
           <<<<N("src"), N(PKG), INIT_PY>>, File(<<"# package">>)>>,
           <<<<N("src"), N(PKG), THRESH_PY>>,
             File(<<"from ", PKG, " import ", "thresholding">>)>>,
           <<<<N("src"), N("build_template")>>, Dir>>,
           <<<<N("src"), N("build_template"), <<"main", ".py">>>>,
             File(<<"template_dir">>)>>,
           <<<<N("tests")>>, Dir>>,
           <<<<N("tests"), INIT_PY>>, File(<<>>)>>,
           <<<<PYPROJECT>>, File(<<"name = ", PKG, "# --- #", PKG>>)>> })

\* A working project with caches, a directory named after a conditional
\* pattern, and workflows.
SourceCaches ==
    Tree({ <<<<N("src")>>, Dir>>,
           <<<<N("src"), N(PKG)>>, Dir>>,
           <<<<N("src"), N(PKG), N("__pycache__")>>, Dir>>,
           <<<<N("src"), N(PKG), N("__pycache__"), <<PKG, ".pyc">>>>,
             File(<<PKG>>)>>,
           <<<<N("src"), N(PKG), N("__pycache__"), <<PKG, "_notes", ".txt">>>>,
             File(<<"notes of ", PKG>>)>>,
           <<<<N("src"), N(PKG), <<"thresholding", "_utils">>>>, Dir>>,
           <<<<N("src"), N(PKG), <<"thresholding", "_utils">>, <<"helper", ".py">>>>,
             File(<<"pass">>)>>,
           <<<<N("tests")>>, Dir>>,
           <<<<N("tests"), N("copier")>>, Dir>>,
           <<<<N("tests"), N("copier"), <<"test_copier", ".py">>>>, File(<<PKG>>)>>,
           <<<<N(".github")>>, Dir>>,
           <<<<N(".github"), N("workflows")>>, Dir>>,
           <<<<N(".github"), N("workflows"), <<"copier_ci", ".yml">>>>,
             File(<<"copier">>)>>,
           <<<<N(".github"), N("workflows"), <<"ci", ".yml">>>>,
             File(<<"os: ", "{{ ", "matrix.os", " }}">>)>> })

\* A working project of one file.
SourceTiny == Tree({ <<<<PYPROJECT>>, File(<<PKG>>)>>,
                     <<<<N("tests")>>, Dir>>,
                     <<<<N("tests"), <<"test_", PKG, ".py">>>>,
                       File(<<"import ", "test_", PKG>>)>> })

\* A working project with files that carry the .jinja marker already: one
\* beside the file it is the marked name of, one that holds the literal, and
\* a hidden file named ".jinja", whose suffix is empty for pathlib.
SourceMarked ==
    Tree({ <<<<N("tests")>>, Dir>>,
           <<<<N("tests"), <<"data", ".txt">>>>, File(<<"data of ", PKG>>)>>,
           <<<<N("tests"), <<"data", ".txt", ".jinja">>>>, File(<<"keep">>)>>,
           <<<<N("tests"), <<"ready", ".md", ".jinja">>>>, File(<<"see ", PKG>>)>>,
           <<<<N("tests"), <<".jinja">>>>, File(<<"hidden ", PKG>>)>>,
           <<<<N("tests"), <<"plain", ".txt">>>>, File(<<"plain">>)>> })

StaticFlat ==
    Tree({ <<<<README>>, File(<<"static readme">>)>>,
           <<<<INIT_PY>>, File(<<"static init">>)>> })

StaticNested ==
    Tree({ <<<<README>>, File(<<"static readme">>)>>,
           <<<<N("docs")>>, Dir>>,
           <<<<N("docs"), <<"index", ".md">>>>, File(<<"static index">>)>> })

StaticCache ==
    Tree({ <<<<N("__pycache__")>>, Dir>>,
           <<<<N("__pycache__"), <<"notes", ".txt">>>>, File(<<"static notes">>)>>,
           <<<<<<"helper", ".py">>>>, File(<<"static helper">>)>> })

StaticClash ==
    Tree({ <<<<N("tests")>>, File(<<"static tests">>)>>,
           <<<<N("docs")>>, Dir>> })

\* keyword_map: <<key, literal>> in file order; conditional_patterns:
\* <<substring, guard>> in file order.
Config(km, cp) ==
    [exists |-> TRUE, has_keyword_map |-> TRUE, has_conditional_patterns |-> TRUE,
     keyword_map |-> km, conditional_patterns |-> cp]

StdPatterns == << <<N("thresholding"), N("include_segmentation_task")>> >>

ConfigStd == Config(<< <<N("project_name"), N(PKG)>> >>, StdPatterns)

ConfigTwoKeys ==
    Config(<< <<N("project_name"), N(PKG)>>, <<N("tests_dir"), N("tests")>> >>,
           StdPatterns)

\* The first literal is part of the second.
ConfigOverlap ==
    Config(<< <<N("project_name"), N(PKG)>>, <<N("test_module"), <<"test_", PKG>>>> >>,
           StdPatterns)

\* The key "fractal_tasks_template_name" holds its own literal.
ConfigReintro == Config(<< <<<<PKG, "_name">>, N(PKG)>> >>, StdPatterns)

ConfigMissing == [ConfigStd EXCEPT !.exists = FALSE]
ConfigNoKeywordMap == [ConfigStd EXCEPT !.has_keyword_map = FALSE]
ConfigNoPatterns == [ConfigStd EXCEPT !.has_conditional_patterns = FALSE]

Scenarios ==
    { [source |-> SourceProject, static |-> StaticFlat,   config |-> ConfigStd],
      [source |-> SourceProject, static |-> StaticNested, config |-> ConfigStd],
      [source |-> SourceProject, static |-> StaticClash,  config |-> ConfigStd],
      [source |-> SourceCaches,  static |-> StaticCache,  config |-> ConfigStd],
      [source |-> SourceCaches,  static |-> StaticFlat,   config |-> ConfigTwoKeys],
      [source |-> SourceTiny,    static |-> StaticFlat,   config |-> ConfigStd],
      [source |-> SourceMarked,  static |-> StaticFlat,   config |-> ConfigStd],
      [source |-> SourceTiny,    static |-> StaticFlat,   config |-> ConfigOverlap],
      [source |-> SourceTiny,    static |-> StaticFlat,   config |-> ConfigReintro],
      [source |-> SourceProject, static |-> StaticFlat,   config |-> ConfigMissing],
      [source |-> SourceTiny,    static |-> StaticFlat,   config |-> ConfigNoKeywordMap],
      [source |-> SourceTiny,    static |-> StaticFlat,   config |-> ConfigNoPatterns] }

\* What the template directory may hold before the first run.
StaleTemplate == Tree({ <<<<<<"old", ".txt">>>>, File(<<"stale">>)>> })
InitialTemplates == {NoTree, StaleTemplate}

\* ------------------------------------------- inputs of the tasks

\* An image of a container: its shape and what its pixels are, the origin and
\* the sigmas of the blurs applied to it since.
Image(shape, origin, blurs) == [shape |-> shape, origin |-> origin, blurs |-> blurs]

\* create_synthetic_ome_zarr(store, shape): a directory with one container
Synthetic(name, shape) ==
    [p \in {<<N("tmp"), name>>} |-> Image(shape, "synthetic", <<>>)]

DATA == <<"data", ".zarr">>
CELLS == <<"cells", ".zarr">>

InitialZarrs ==
    {Synthetic(n, sh) : n \in {DATA, CELLS},
                       sh \in {<<64, 64>>, <<1, 10, 64, 64>>}}

\* sigma_z=None
NoSigma == 0 - 1

\* output_image_suffix, one token a character or a run without whitespace
Suffixes ==
    { <<"gaussian_blur">>,
      <<" ", "my", " ", "blur", "\t">>,
      <<"backup">> }

\* the containers the tasks are called on
ZarrUrls == {<<N("tmp"), DATA>>, <<N("tmp"), CELLS>>}

BlurArgs ==
    [zarr_url : ZarrUrls,
     output_image_suffix : Suffixes,
     sigma : {<<1, NoSigma>>, <<2, 1>>},
     overwrite : BOOLEAN,
     overwrite_input : BOOLEAN]

\* the defaults of gaussian_blur_task
DefaultArgs ==
    [zarr_url |-> <<N("tmp"), DATA>>,
     output_image_suffix |-> <<"gaussian_blur">>, sigma |-> <<1, NoSigma>>,
     overwrite |-> TRUE, overwrite_input |-> FALSE]

\* what a call returns
NoResult == [kind |-> "", image_list_updates |-> <<>>]
None == [kind |-> "None", image_list_updates |-> <<>>]

\* ---------------------------------------------------------------- bounds

\* calls of main()
MaxRuns == 2
\* renames of one run of the filename-substitution loop
MaxRenames == 6
\* edits of the template directory between runs
MaxTamper == 1
\* calls of gaussian_blur_task
MaxCalls == 3
\* chunks the iterator of threshold_segmentation_task yields
MaxChunks == 3
\* objects the segmentation finds in one chunk
MaxObjects == 2

\* ----------------------------------------------------------------- state

VARIABLES
    source,          \* the working project (source_dir), never written
    static,          \* static_template_dir, never written
    config,          \* the file at args.config
    template,        \* template_dir
    committed,       \* the files of template_dir that git tracks
    pc,              \* where main() is
    run,             \* calls of main() so far
    check,           \* args.check of this call
    err,             \* the exception that ended this call, "" if none
    ret,             \* what main() returned, -1 before it returns
    returncode,      \* result.returncode of git diff, -1 if not run
    ki,              \* position in keyword_map.items()
    path_changed,    \* the list path_changed, then what is left of its set
    renames,         \* renames of this run of the while loop
    ci,              \* position in conditional_patterns.items()
    pending,         \* rglob: directories not listed yet
    block,           \* rglob: entries listed and not yielded yet
    cwd,             \* rglob: the directory whose entries are being yielded
    current_files,   \* the set current_files
    visited,         \* entries of static_template_dir already yielded
    picked,          \* base name -> the first element of current_files with it
    tampers,         \* edits of template_dir between runs
    \* what the properties read: trees as they were at earlier points
    at_start, at_engine, at_key, at_marker, at_loop, at_cond, at_merge, finals,
    drift,
    orders,          \* what `picked` was at the end of each completed call
    \* the tasks of src/fractal_tasks_template
    zarrs,           \* the OME-Zarr containers on disk: name -> image
    task_pc,         \* where the running task is
    args,            \* the keyword arguments of the running call
    before,          \* zarrs when the call started
    result,          \* what the call returned
    raised,          \* the exception that ended the call, "" if none
    calls,           \* calls of the tasks so far
    urls,            \* the <<zarr_url, suffix, zarr_url returned>> so far
    chunks,          \* threshold_segmentation_task: objects found in each
                     \* chunk the iterator has still to yield
    max_label,       \* threshold_segmentation_task: max_label
    written,         \* the non-zero labels handed to writer(), per chunk
    move             \* the old and new of the move_path call looked at

env == <<source, static, config>>
walk == <<pending, block, cwd>>
merge == <<current_files, visited, picked>>
history == <<at_start, at_engine, at_key, at_marker, at_loop, at_cond, at_merge,
            finals, drift, orders>>
tasks == <<zarrs, task_pc, args, before, result, raised, calls, urls, chunks,
           max_label, written>>
vars == <<tasks, move, env, template, committed, pc, run, check, err, ret, returncode, ki,
          path_changed, renames, ci, walk, merge, tampers, history>>

\* no move_path call yet
NoMove == [old |-> Root, new |-> Root]

keyword_map == config.keyword_map
conditional_patterns == config.conditional_patterns

\* main() has not been called
BuildIdle ==
    /\ committed = NoTree
    /\ pc = "idle"
    /\ run = 0
    /\ check = FALSE
    /\ err = ""
    /\ ret = -1
    /\ returncode = -1
    /\ ki = 1
    /\ path_changed = {}
    /\ renames = 0
    /\ ci = 1
    /\ pending = {}
    /\ block = {}
    /\ cwd = Root
    /\ current_files = {}
    /\ visited = {}
    /\ picked = {}
    /\ tampers = 0
    /\ at_start = NoTree
    /\ at_engine = NoTree
    /\ at_key = NoTree
    /\ at_marker = NoTree
    /\ at_loop = NoTree
    /\ at_cond = NoTree
    /\ at_merge = NoTree
    /\ finals = <<>>
    /\ drift = FALSE
    /\ orders = <<>>

\* no task has been called
TasksIdle ==
    /\ task_pc = "idle"
    /\ args = DefaultArgs
    /\ before = zarrs
    /\ result = NoResult
    /\ raised = ""
    /\ calls = 0
    /\ urls = {}
    /\ chunks = <<>>
    /\ max_label = 0
    /\ written = <<>>

Init ==
    /\ \E s \in Scenarios :
          /\ source = s.source
          /\ static = s.static
          /\ config = s.config
    /\ template \in InitialTemplates
    /\ move = NoMove
    /\ BuildIdle
    /\ zarrs = Synthetic(DATA, <<64, 64>>)
    /\ TasksIdle

\* git diff --exit-code template_dir finds a difference: a tracked file is
\* gone or holds other bytes.  Untracked files are not compared.
GitDiffers(t, tracked) ==
    \E p \in DOMAIN tracked : ~IsFile(t, p) \/ t[p] # tracked[p]

\* the files of a tree
Files(t) == Restrict(t, {p \in DOMAIN t : t[p].kind = "file"})

\* ------------------------------------------------------------ main()

\* sys.exit(main(parse_args()))
Start(c) ==
    /\ pc \in {"idle", "done", "failed", "edited"}
    /\ run < MaxRuns
    /\ pc' = "load"
    /\ run' = run + 1
    /\ check' = c
    /\ err' = ""
    /\ ret' = -1
    /\ returncode' = -1
    /\ at_start' = template
    /\ drift' = GitDiffers(template, committed)
    /\ UNCHANGED <<tasks, move, env, template, committed, ki, path_changed, renames, ci, walk,
                   merge, tampers, at_engine, at_key, at_marker, at_loop, at_cond,
                   at_merge, finals, orders>>

\* (a Step 1 that makes the directory and removes nothing)
CleanTemplateKeep(t) == MkDirs(t, Root)

\* Step 1: shutil.rmtree(template_dir); template_dir.mkdir()
CleanTemplate(t) == MkDirs(IF Exists(t, Root) THEN Remove(t, Root) ELSE t, Root)

\* (a load that comes after Step 1)
LoadConfigAfterClean ==
    /\ pc = "load"
    /\ template' = CleanTemplate(template)
    /\ IF ~config.exists THEN pc' = "failed" /\ err' = "FileNotFoundError"
       ELSE IF ~config.has_keyword_map \/ ~config.has_conditional_patterns
       THEN pc' = "failed" /\ err' = "KeyError"
       ELSE pc' = "clean" /\ err' = err
    /\ UNCHANGED <<tasks, move, env, committed, run, check, ret, returncode, ki,
                   path_changed, renames, ci, walk, merge, tampers, history>>

\* main: load the keyword mappings
LoadConfig ==
    /\ pc = "load"
    /\ IF ~config.exists THEN pc' = "failed" /\ err' = "FileNotFoundError"
       ELSE IF ~config.has_keyword_map \/ ~config.has_conditional_patterns
       THEN pc' = "failed" /\ err' = "KeyError"
       ELSE pc' = "clean" /\ err' = err
    /\ UNCHANGED <<tasks, move, env, template, committed, run, check, ret, returncode, ki,
                   path_changed, renames, ci, walk, merge, tampers, history>>

Clean ==
    /\ pc = "clean"
    /\ template' = CleanTemplate(template)
    /\ pc' = "copy"
    /\ UNCHANGED <<tasks, move, env, committed, run, check, err, ret, returncode, ki,
                   path_changed, renames, ci, walk, merge, tampers, history>>

\* Step 2: for item in to_be_included: copy_any(source_dir / item, template_dir)
RECURSIVE CopyIncluded(_, _, _)
CopyIncluded(t, from, i) ==
    IF i > Len(to_be_included) THEN t
    ELSE CopyIncluded(copy_any(t, from, <<to_be_included[i]>>, Root), from, i + 1)

\* ... and what the calls of copy_any from item i on leave of source_dir
RECURSIVE SourceAfterCopy(_, _)
SourceAfterCopy(from, i) ==
    IF i > Len(to_be_included) THEN from
    ELSE SourceAfterCopy(copy_any_source(from, <<to_be_included[i]>>), i + 1)

Copy ==
    /\ pc = "copy"
    /\ template' = CopyIncluded(template, source, 1)
    /\ source' = SourceAfterCopy(source, 1)
    /\ pc' = "exclude"
    /\ UNCHANGED <<tasks, move, static, config, committed, run, check, err, ret, returncode, ki,
                   path_changed, renames, ci, walk, merge, tampers, history>>

\* for item in to_be_excluded: ensure_removed(template_dir / item)
RECURSIVE RemoveExcluded(_, _)
RemoveExcluded(t, i) ==
    IF i > Len(to_be_excluded) THEN t
    ELSE RemoveExcluded(ensure_removed(t, to_be_excluded[i]), i + 1)

Exclude ==
    /\ pc = "exclude"
    /\ template' = RemoveExcluded(template, 1)
    /\ pc' = "replace"
    /\ ki' = 1
    /\ path_changed' = {}
    /\ at_engine' = template'
    /\ at_key' = template'
    /\ UNCHANGED <<tasks, move, env, committed, run, check, err, ret, returncode, renames, ci,
                   walk, merge, tampers, at_start, at_marker, at_loop, at_cond,
                   at_merge, finals, drift, orders>>

\* The files one pass of Step 4 offers to replace_in_file.
Scanned(t) == {p \in path_generator(t) : IsFile(t, p)}

\* One pass over path_generator(template_dir) with one search string: the
\* files replace_in_file returns True for ...
PassChanged(t, search) ==
    {p \in Scanned(t) : replace_in_file_changed(t, p, search)}

\* ... and the tree the pass leaves.
PassTree(t, search, replace) ==
    [p \in DOMAIN t |->
        IF p \in Scanned(t) THEN replace_in_file(t, p, search, replace)[p]
        ELSE t[p]]

\* Step 4, one key of keyword_map
ReplaceKey ==
    /\ pc = "replace"
    /\ ki <= Len(keyword_map)
    /\ LET key == keyword_map[ki][1]
           search == keyword_map[ki][2]
       IN  /\ template' = PassTree(template, search, Placeholder(key))
           /\ path_changed' = path_changed \cup PassChanged(template, search)
    /\ at_key' = template
    /\ ki' = ki + 1
    /\ UNCHANGED <<tasks, move, env, committed, pc, run, check, err, ret, returncode, renames,
                   ci, walk, merge, tampers, at_start, at_engine, at_marker, at_loop,
                   at_cond, at_merge, finals, drift, orders>>

\* Step 4, the loop over _fix_mappings: the changed files and the tree after
\* the mappings from i on
RECURSIVE FixChanged(_, _)
FixChanged(t, i) ==
    IF i > Len(_fix_mappings) THEN {}
    ELSE PassChanged(t, _fix_mappings[i].search)
         \cup FixChanged(PassTree(t, _fix_mappings[i].search,
                                  _fix_mappings[i].replace), i + 1)

RECURSIVE FixTree(_, _)
FixTree(t, i) ==
    IF i > Len(_fix_mappings) THEN t
    ELSE FixTree(PassTree(t, _fix_mappings[i].search, _fix_mappings[i].replace),
                 i + 1)

FixMappings ==
    /\ pc = "replace"
    /\ ki > Len(keyword_map)
    /\ template' = FixTree(template, 1)
    /\ path_changed' = path_changed \cup FixChanged(template, 1)
    /\ pc' = IF path_changed' = {} THEN "rename" ELSE "jinjify"
    /\ renames' = 0
    /\ at_marker' = template'
    /\ at_loop' = IF path_changed' = {} THEN template' ELSE at_loop
    /\ UNCHANGED <<tasks, move, env, committed, run, check, err, ret, returncode, ki, ci, walk,
                   merge, tampers, at_start, at_engine, at_key, at_cond, at_merge,
                   finals, drift, orders>>

\* Step 4 as a whole: the files path_changed holds after the passes of the
\* keys from i on and of _fix_mappings
RECURSIVE KeyChanged(_, _)
KeyChanged(t, i) ==
    IF i > Len(keyword_map) THEN FixChanged(t, 1)
    ELSE PassChanged(t, keyword_map[i][2])
         \cup KeyChanged(PassTree(t, keyword_map[i][2],
                                  Placeholder(keyword_map[i][1])), i + 1)

\* (a marker appended whatever the suffix)
JinjifiedAlways(t, static_file) ==
    move_path(t, static_file,
              Append(Parent(static_file), Name(static_file) \o JINJA))

\* Step 5: the body of `for static_file in set(path_changed)`
Jinjified(t, static_file) ==
    IF Suffix(Name(static_file)) # JINJA
    THEN move_path(t, static_file,
                   Append(Parent(static_file), Name(static_file) \o JINJA))
    ELSE t

\* one element of set(path_changed), in the order the set gives
Jinjify(static_file) ==
    /\ pc = "jinjify"
    /\ static_file \in path_changed
    /\ template' = Jinjified(template, static_file)
    /\ path_changed' = path_changed \ {static_file}
    /\ pc' = IF path_changed' = {} THEN "rename" ELSE "jinjify"
    /\ at_loop' = IF path_changed' = {} THEN template' ELSE at_loop
    /\ UNCHANGED <<tasks, move, env, committed, run, check, err, ret, returncode, ki, renames,
                   ci, walk, merge, tampers, at_start, at_engine, at_key,
                   at_marker, at_cond, at_merge, finals, drift, orders>>

\* The while loop of Step 5.  product() reads path_generator(template_dir) to
\* its end before the first pair is looked at, so each round works on paths
\* that exist.  rglob yields the entries of a directory before those of the
\* directories below it; the order of the rest is the file system's.

\* the keys whose literal is in the name, in the order of keyword_map
MatchingKeys(name) ==
    {i \in 1..Len(keyword_map) : Contains(name, keyword_map[i][2])}

Matching(t) == {p \in path_generator(t) : MatchingKeys(Name(p)) # {}}

\* the paths that some order of the scan meets first among the matching ones
FirstMatches(t) ==
    {p \in Matching(t) :
        ~\E q \in Matching(t) :
            Len(Parent(q)) < Len(Parent(p)) /\ IsPrefix(Parent(q), Parent(p))}

FirstKey(name) ==
    CHOOSE i \in MatchingKeys(name) : \A j \in MatchingKeys(name) : i <= j

\* new_path in the body of the `if search in static_file.name`
NewPath(static_file, i) ==
    LET replace == Placeholder(keyword_map[i][1])
        new_name == StrReplace(Name(static_file), keyword_map[i][2], replace)
    IN  Append(Parent(static_file), new_name)

\* the body of the `if search in static_file.name`
Renamed(t, static_file, i) ==
    move_path(t, static_file, NewPath(static_file, i))

\* (one scan, made before the loop starts)
SnapshotOnce(now, first) == first

\* What product() holds of path_generator(template_dir): it reads the whole
\* generator before the first pair, in every round of `while True`, so the
\* scan is of the tree as that round finds it.
Snapshot(now, first) == now

\* (a loop that stops after its first round)
AfterRoundOnce(found) == "cond"

\* what `while True` starts after a round
AfterRound(found) == IF found THEN "rename" ELSE "cond"

RenameLoop ==
    /\ pc = "rename"
    /\ \/ /\ Matching(Snapshot(template, at_loop)) # {}
          /\ renames < MaxRenames
          /\ \E static_file \in FirstMatches(Snapshot(template, at_loop)) :
                /\ template' = Renamed(template, static_file,
                                       FirstKey(Name(static_file)))
                /\ move' = [old |-> static_file,
                            new |-> NewPath(static_file,
                                             FirstKey(Name(static_file)))]
          /\ renames' = renames + 1
          /\ pc' = AfterRound(TRUE)
       \/ /\ Matching(Snapshot(template, at_loop)) = {}
          /\ pc' = AfterRound(FALSE)
          /\ UNCHANGED <<template, renames, move>>
    /\ IF pc' = "cond"
       THEN /\ ci' = 1
            /\ pending' = {Root}
            /\ block' = {}
            /\ cwd' = Root
            /\ at_cond' = template'
       ELSE UNCHANGED <<ci, walk, at_cond>>
    /\ UNCHANGED <<tasks, env, committed, run, check, err, ret, returncode, ki,
                   path_changed, merge, tampers, at_start, at_engine, at_key,
                   at_marker, at_loop, at_merge, finals, drift, orders>>

\* Step 6.  path_generator is read while the loop body renames: rglob lists a
\* directory, yields its entries, and only then lists it again for the
\* directories to go down into, so a directory renamed by the body is entered
\* under its new name.

Children(t, d) == {p \in DOMAIN t : p # Root /\ Parent(p) = d}
SubDirs(t, d) == {p \in Children(t, d) : IsDir(t, p)}

\* rglob lists the next directory
CondList ==
    /\ pc = "cond"
    /\ ci <= Len(conditional_patterns)
    /\ block = {}
    /\ \E d \in pending :
          LET entries == {p \in Children(template, d) : ~Skipped(p)}
          IN  /\ block' = entries
              /\ cwd' = d
              /\ pending' = (pending \ {d})
                            \cup (IF entries = {} THEN SubDirs(template, d) ELSE {})
    /\ UNCHANGED <<tasks, move, env, template, committed, pc, run, check, err, ret, returncode,
                   ki, path_changed, renames, ci, merge, tampers, history>>

\* the body of `for static_file in path_generator(template_dir)`
Wrapped(t, static_file, search, condition) ==
    IF Contains(Name(static_file), search)
    THEN move_path(t, static_file,
                   Append(Parent(static_file),
                          ConditionalName(condition, Stem(Name(static_file)))))
    ELSE t

\* one yielded path
CondVisit(static_file) ==
    /\ pc = "cond"
    /\ static_file \in block
    /\ template' = Wrapped(template, static_file, conditional_patterns[ci][1],
                           conditional_patterns[ci][2])
    /\ block' = block \ {static_file}
    /\ pending' = pending \cup (IF block' = {} THEN SubDirs(template', cwd) ELSE {})
    /\ UNCHANGED <<tasks, move, env, committed, pc, run, check, err, ret, returncode, ki,
                   path_changed, renames, ci, cwd, merge, tampers, history>>

\* the scan of one pattern is over; after the last, current_files is taken
CondNext ==
    /\ pc = "cond"
    /\ block = {}
    /\ pending = {} \/ ci > Len(conditional_patterns)
    /\ IF ci < Len(conditional_patterns)
       THEN /\ ci' = ci + 1
            /\ pending' = {Root}
            /\ UNCHANGED <<pc, merge, at_merge>>
       ELSE /\ pc' = "merge"
            /\ current_files' = path_generator(template)
            /\ visited' = {}
            /\ picked' = {}
            /\ at_merge' = template
            /\ pending' = {}
            /\ UNCHANGED ci
    /\ UNCHANGED <<tasks, move, env, template, committed, run, check, err, ret, returncode, ki,
                   path_changed, renames, block, cwd, tampers, at_start, at_engine,
                   at_key, at_marker, at_loop, at_cond, finals, drift, orders>>

\* "Move static template files".  current_files is a set of Path objects:
\* the order of `for file in current_files` is that of their hashes, which
\* changes from one interpreter process to the next, and stays the same for
\* the whole of one call.

\* the entries of static_template_dir the scan may yield next
NextStatic ==
    {p \in path_generator(static) \ visited :
        ~\E q \in path_generator(static) \ visited :
            Len(Parent(q)) < Len(Parent(p)) /\ IsPrefix(Parent(q), Parent(p))}

\* (no entry taken for a directory)
StaticNeverDir(static_file) == FALSE

\* static_file.is_dir()
StaticIsDir(static_file) == IsDir(static, static_file)

SameName(static_file) == {f \in current_files : Name(f) = Name(static_file)}

\* the `file` the inner loop breaks at, if any
FirstSameName(static_file, file) ==
    /\ file \in SameName(static_file)
    /\ \A c \in picked : c[1] = Name(static_file) => c[2] = file

\* (the overlay file put in template_dir whatever was found)
ReplacedInRoot(t, static_file, file) ==
    copy_any(Remove(t, file), static, static_file, Root)

\* file.unlink(); copy_any(static_file, file.parent)
Replaced(t, static_file, file) ==
    copy_any(Remove(t, file), static, static_file, Parent(file))

\* the for-else branch: copy_any(static_file, template_dir)
Added(t, static_file) == copy_any(t, static, static_file, Root)

MergeStep(static_file) ==
    /\ pc = "merge"
    /\ static_file \in NextStatic
    /\ visited' = visited \cup {static_file}
    /\ \/ /\ StaticIsDir(static_file)
          /\ pc' = "failed"
          /\ err' = "NotImplementedError"
          /\ UNCHANGED <<template, static, picked>>
       \/ /\ ~StaticIsDir(static_file)
          /\ SameName(static_file) = {}
          /\ template' = Added(template, static_file)
          /\ static' = copy_any_source(static, static_file)
          /\ UNCHANGED <<pc, err, picked>>
       \/ /\ ~StaticIsDir(static_file)
          /\ \E file \in SameName(static_file) :
                /\ FirstSameName(static_file, file)
                /\ picked' = picked \cup {<<Name(static_file), file>>}
                /\ IF IsFile(template, file)
                   THEN /\ template' = Replaced(template, static_file, file)
                        /\ static' = copy_any_source(static, static_file)
                        /\ UNCHANGED <<pc, err>>
                   ELSE \* unlink() of a directory
                        /\ pc' = "failed"
                        /\ err' = "OSError"
                        /\ UNCHANGED <<template, static>>
    /\ UNCHANGED <<tasks, move, source, config, committed, run, check, ret, returncode, ki, path_changed,
                   renames, ci, walk, current_files, tampers, history>>

\* (a build that never runs git diff)
MergeDoneNoCheck ==
    /\ pc = "merge"
    /\ visited = path_generator(static)
    /\ pc' = "done" /\ ret' = 0 /\ finals' = Append(finals, template)
    /\ orders' = Append(orders, picked)
    /\ UNCHANGED <<tasks, move, env, template, committed, run, check, err, returncode, ki,
                   path_changed, renames, ci, walk, merge, tampers, at_start,
                   at_engine, at_key, at_marker, at_loop, at_cond, at_merge, drift>>

\* "Build complete."; without --check, return 0
MergeDone ==
    /\ pc = "merge"
    /\ visited = path_generator(static)
    /\ IF check
       THEN pc' = "check" /\ UNCHANGED <<ret, finals, orders>>
       ELSE /\ pc' = "done" /\ ret' = 0 /\ finals' = Append(finals, template)
            /\ orders' = Append(orders, picked)
    /\ UNCHANGED <<tasks, move, env, template, committed, run, check, err, returncode, ki,
                   path_changed, renames, ci, walk, merge, tampers, at_start,
                   at_engine, at_key, at_marker, at_loop, at_cond, at_merge, drift>>

\* what git diff --exit-code exits with: 0 no difference, 1 differences,
\* 128 when git itself fails
GitDiff(t, tracked, fails) ==
    IF fails THEN 128 ELSE IF GitDiffers(t, tracked) THEN 1 ELSE 0

\* (only the exit code of "differences" taken for a failure)
ExitCodeOfDiff(rc) == IF rc = 1 THEN 1 ELSE 0

\* `if result.returncode != 0: return 1`, else 0
ExitCode(rc) == IF rc # 0 THEN 1 ELSE 0

Check ==
    /\ pc = "check"
    /\ \E fails \in BOOLEAN : returncode' = GitDiff(template, committed, fails)
    /\ ret' = ExitCode(returncode')
    /\ pc' = "done"
    /\ finals' = Append(finals, template)
    /\ orders' = Append(orders, picked)
    /\ UNCHANGED <<tasks, move, env, template, committed, run, check, err, ki, path_changed,
                   renames, ci, walk, merge, tampers, at_start, at_engine, at_key,
                   at_marker, at_loop, at_cond, at_merge, drift>>

\* ------------------------------------------------- between two calls

\* git add template_dir; git commit
Commit ==
    /\ pc \in {"done", "edited"}
    /\ committed # Files(template)
    /\ committed' = Files(template)
    /\ pc' = "edited"
    /\ UNCHANGED <<tasks, move, env, template, run, check, err, ret, returncode, ki,
                   path_changed, renames, ci, walk, merge, tampers, history>>

\* somebody edits a file of template_dir
Tamper(p) ==
    /\ pc \in {"done", "edited"}
    /\ tampers < MaxTamper
    /\ IsFile(template, p)
    /\ template' = [template EXCEPT ![p].content = Append(@, "edited")]
    /\ tampers' = tampers + 1
    /\ pc' = "edited"
    /\ UNCHANGED <<tasks, move, env, committed, run, check, err, ret, returncode, ki,
                   path_changed, renames, ci, walk, merge, history>>

Next ==
    \/ \E c \in BOOLEAN : Start(c)
    \/ LoadConfig
    \/ Clean
    \/ Copy
    \/ Exclude
    \/ ReplaceKey
    \/ FixMappings
    \/ \E f \in path_changed : Jinjify(f)
    \/ RenameLoop
    \/ CondList
    \/ \E f \in block : CondVisit(f)
    \/ CondNext
    \/ \E f \in DOMAIN static : MergeStep(f)
    \/ MergeDone
    \/ Check
    \/ Commit
    \/ \E p \in DOMAIN template : Tamper(p)

Spec == Init /\ [][Next]_vars

\* ------------------------------------------------- gaussian_blur_task

Whitespace == {" ", "\t"}

\* str.lstrip(), str.rstrip(), str.strip()
RECURSIVE lstrip(_)
lstrip(text) ==
    IF text # <<>> /\ Head(text) \in Whitespace THEN lstrip(Tail(text)) ELSE text

RECURSIVE rstrip(_)
rstrip(text) ==
    IF text # <<>> /\ text[Len(text)] \in Whitespace
    THEN rstrip(SubSeq(text, 1, Len(text) - 1))
    ELSE text

strip(text) == rstrip(lstrip(text))

\* (a suffix that is stripped and keeps its spaces)
sanitize_strip_only(output_image_suffix) == strip(output_image_suffix)

\* output_image_suffix.strip().lstrip().rstrip().replace(" ", "_")
sanitize(output_image_suffix) ==
    StrReplace(rstrip(lstrip(strip(output_image_suffix))), <<" ">>, <<"_">>)

\* zarr_dir / f"{image_name}_{output_image_suffix}{zarr_path.suffix}"
output_zarr_path(zarr_url, output_image_suffix) ==
    Append(Parent(zarr_url),
           Stem(Name(zarr_url)) \o <<"_">> \o sanitize(output_image_suffix)
               \o Suffix(Name(zarr_url)))

\* zarr_path.parent / f"{zarr_path.stem}_backup{zarr_path.suffix}"
backup_path(zarr_url) ==
    Append(Parent(zarr_url),
           Stem(Name(zarr_url)) \o <<"_", "backup">> \o Suffix(Name(zarr_url)))

\* (sigma_xy, sigma_z) -> sigma
Sigma(sg) ==
    IF sg[2] = NoSigma THEN <<0, sg[1], sg[1]>> ELSE <<0, sg[2], sg[1], sg[1]>>

\* the loop over iterator.iter_as_dask(): every chunk of the input, blurred
compute_gaussian_blur(image, sigma) ==
    Image(image.shape, image.origin, Append(image.blurs, sigma))

\* (a derive_image that replaces what it finds, whatever overwrite is)
derive_image_replaces(z, store, overwrite) == FALSE

\* ome_zarr.derive_image(store, overwrite) finds a container it must not
\* replace and raises FileExistsError
derive_image_exists(z, store, overwrite) == store \in DOMAIN z /\ ~overwrite

\* ome_zarr.derive_image(store, name, overwrite): a container at store with
\* an image of the shape of the input and no pixel written
derive_image(z, input, store) ==
    [p \in DOMAIN z \cup {store} |->
        IF p = store THEN Image(z[input].shape, "derived", <<>>) ELSE z[p]]

\* os.rename(src, dst) of a directory: fails (OSError) when dst is there, a
\* container being a directory that is not empty
os_rename_fails(z, src, dst) == src \notin DOMAIN z \/ dst \in DOMAIN z

os_rename(z, src, dst) ==
    [p \in (DOMAIN z \ {src}) \cup {dst} |-> IF p = dst THEN z[src] ELSE z[p]]

\* shutil.rmtree(path)
rmtree(z, path) == [p \in DOMAIN z \ {path} |-> z[p]]

\* {"image_list_updates": [{"zarr_url": ..., "origin": ...}]}
image_list_update_dict(output, origin) ==
    [kind |-> "dict",
     image_list_updates |-> << [zarr_url |-> output, origin |-> origin] >>]

output == output_zarr_path(args.zarr_url, args.output_image_suffix)

build == <<move, env, template, committed, pc, run, check, err, ret, returncode, ki,
           path_changed, renames, ci, walk, merge, tampers, history>>
segmentation == <<chunks, max_label, written>>

\* gaussian_blur_task(zarr_url=..., ...): open_ome_zarr_container(zarr_url)
BlurCall(a) ==
    /\ task_pc \in {"idle", "returned", "raised"}
    /\ calls < MaxCalls
    /\ a.zarr_url \in DOMAIN zarrs
    /\ args' = a
    /\ before' = zarrs
    /\ calls' = calls + 1
    /\ result' = NoResult
    /\ raised' = ""
    /\ task_pc' = "derive"
    /\ UNCHANGED <<build, segmentation, zarrs, urls>>

\* output_ome_zarr = ome_zarr.derive_image(...)
BlurDerive ==
    /\ task_pc = "derive"
    /\ IF derive_image_exists(zarrs, output, args.overwrite)
       THEN /\ task_pc' = "raised"
            /\ raised' = "FileExistsError"
            /\ UNCHANGED zarrs
       ELSE /\ zarrs' = derive_image(zarrs, args.zarr_url, output)
            /\ task_pc' = "iterate"
            /\ UNCHANGED raised
    /\ UNCHANGED <<build, segmentation, args, before, result, calls, urls>>

\* for input_data, writer in iterator.iter_as_dask(): writer(blurred_data)
BlurIterate ==
    /\ task_pc = "iterate"
    /\ zarrs' = [zarrs EXCEPT ![output] =
                    compute_gaussian_blur(zarrs[args.zarr_url], Sigma(args.sigma))]
    /\ task_pc' = "blurred"
    /\ UNCHANGED <<build, segmentation, args, before, result, raised, calls, urls>>

\* return image_list_update_dict
BlurReturn ==
    /\ task_pc = "blurred"
    /\ ~args.overwrite_input
    /\ result' = image_list_update_dict(output, args.zarr_url)
    /\ urls' = urls \cup {<<args.zarr_url, args.output_image_suffix, output>>}
    /\ task_pc' = "returned"
    /\ UNCHANGED <<build, segmentation, zarrs, args, before, raised, calls>>

\* os.rename(zarr_path, backup_path)
BlurRenameInput ==
    /\ task_pc = "blurred"
    /\ args.overwrite_input
    /\ IF os_rename_fails(zarrs, args.zarr_url, backup_path(args.zarr_url))
       THEN /\ task_pc' = "raised"
            /\ raised' = "OSError"
            /\ UNCHANGED zarrs
       ELSE /\ zarrs' = os_rename(zarrs, args.zarr_url, backup_path(args.zarr_url))
            /\ task_pc' = "rename_output"
            /\ UNCHANGED raised
    /\ UNCHANGED <<build, segmentation, args, before, result, calls, urls>>

\* os.rename(output_zarr_path, zarr_path)
BlurRenameOutput ==
    /\ task_pc = "rename_output"
    /\ IF os_rename_fails(zarrs, output, args.zarr_url)
       THEN /\ task_pc' = "raised"
            /\ raised' = "OSError"
            /\ UNCHANGED zarrs
       ELSE /\ zarrs' = os_rename(zarrs, output, args.zarr_url)
            /\ task_pc' = "remove_backup"
            /\ UNCHANGED raised
    /\ UNCHANGED <<build, segmentation, args, before, result, calls, urls>>

\* shutil.rmtree(backup_path); return None
BlurRemoveBackup ==
    /\ task_pc = "remove_backup"
    /\ zarrs' = rmtree(zarrs, backup_path(args.zarr_url))
    /\ result' = None
    /\ task_pc' = "returned"
    /\ UNCHANGED <<build, segmentation, args, before, raised, calls, urls>>

BlurNext ==
    \/ \E a \in BlurArgs : BlurCall(a)
    \/ BlurDerive
    \/ BlurIterate
    \/ BlurReturn
    \/ BlurRenameInput
    \/ BlurRenameOutput
    \/ BlurRemoveBackup

\* the state of the build while the tasks run
BuildFixed ==
    /\ source = SourceTiny
    /\ static = StaticFlat
    /\ config = ConfigStd
    /\ template = NoTree
    /\ move = NoMove
    /\ BuildIdle

BlurInit ==
    /\ BuildFixed
    /\ zarrs \in InitialZarrs
    /\ TasksIdle

BlurSpec == BlurInit /\ [][BlurNext]_vars

\* ------------------------------------------ threshold_segmentation_task

Max(S) == CHOOSE x \in S : \A y \in S : y <= x

\* what segmentation_function returns for a chunk with n objects:
\* skimage.measure.label numbers them 1..n, 0 is the background
segmentation_function(n) == 1..n

\* np.where(label_img == 0, 0, label_img + max_label), less the background
shifted(label_img, max) == {l + max : l \in label_img}

\* label_img.max() of a chunk that holds background
label_max(labels) == Max(labels \cup {0})

\* the chunk sequences the iterator may yield: the objects in each
ChunkSeqs ==
    UNION {[1..n -> 0..MaxObjects] : n \in 1..MaxChunks}

\* threshold_segmentation_task(...) up to `max_label = 0`
SegCall(cs) ==
    /\ task_pc \in {"idle", "returned"}
    /\ chunks' = cs
    /\ max_label' = 0
    /\ written' = <<>>
    /\ result' = NoResult
    /\ task_pc' = "segment"
    /\ UNCHANGED <<build, zarrs, args, before, raised, calls, urls>>

\* one round of `for image_data, writer in iterator.iter_as_numpy()`
SegChunk ==
    /\ task_pc = "segment"
    /\ chunks # <<>>
    /\ LET label_img == shifted(segmentation_function(Head(chunks)), max_label)
       IN  /\ max_label' = label_max(label_img)
           /\ written' = Append(written, label_img)
    /\ chunks' = Tail(chunks)
    /\ UNCHANGED <<build, zarrs, task_pc, args, before, result, raised, calls, urls>>

\* return None
SegReturn ==
    /\ task_pc = "segment"
    /\ chunks = <<>>
    /\ result' = None
    /\ task_pc' = "returned"
    /\ UNCHANGED <<build, segmentation, zarrs, args, before, raised, calls, urls>>

SegNext ==
    \/ \E cs \in ChunkSeqs : SegCall(cs)
    \/ SegChunk
    \/ SegReturn

SegInit ==
    /\ BuildFixed
    /\ zarrs = Synthetic(DATA, <<64, 64>>)
    /\ TasksIdle

SegSpec == SegInit /\ [][SegNext]_vars

\* ------------------------------------------------------------ properties

\* a and b can lie over each other, at least one token in common, and agree
\* wherever they do: an occurrence of a can then lie partly or wholly inside
\* an occurrence of b
CanOverlap(a, b) ==
    \E d \in (1 - Len(b))..(Len(a) - 1) :
        LET lo == IF d + 1 > 1 THEN d + 1 ELSE 1
            hi == IF d + Len(b) < Len(a) THEN d + Len(b) ELSE Len(a)
        IN  lo <= hi /\ \A i \in lo..hi : a[i] = b[i - d]

\* No literal of keyword_map is empty or can be formed again by, or across
\* the edge of, a rendered placeholder.
NoReintroduction ==
    \A i, j \in 1..Len(keyword_map) :
        /\ keyword_map[j][2] # <<>>
        /\ ~CanOverlap(keyword_map[j][2], Placeholder(keyword_map[i][1]))

\* main() has returned
Completed == pc = "done"

\* C1: idempotence of the build: every completed call of main() on the same
\* source tree, static overlay and configuration leaves the same template
\* tree, whatever the order in which current_files is iterated.
C1_Idempotent == \A i, j \in 1..Len(finals) : finals[i] = finals[j]

\* (paths under the tree when the loop starts) x (keys)
LoopBound == (Cardinality(DOMAIN at_loop) - 1) * Len(keyword_map)

\* the (path, key) pairs a scan of the loop can still find
OpenMatches(t) ==
    {pk \in path_generator(t) \X (1..Len(keyword_map)) :
        Contains(Name(pk[1]), keyword_map[pk[2]][2])}

\* C2 as stated: with no literal reintroduced, the while loop makes at most
\* (paths) x (keys) renames, and when it exits no path under the template
\* tree has a base name holding a literal of keyword_map.
C2_NoLiteralLeft ==
    NoReintroduction =>
        /\ pc = "rename" => renames <= LoopBound
        /\ \A p \in DOMAIN at_cond \ {Root} : MatchingKeys(Name(p)) = {}

\* C2 as amended: with no literal reintroduced, the renames made and the
\* matches still open never exceed (paths) x (keys), so the loop exits after
\* at most that many renames; and when it exits no path that path_generator
\* yields (no path whose name matches an exclusion pattern is) has a base
\* name holding a literal of keyword_map.
C2_FixedPoint ==
    NoReintroduction =>
        /\ pc = "rename" =>
              renames + Cardinality(OpenMatches(template)) <= LoopBound
        /\ \A p \in path_generator(at_cond) : MatchingKeys(Name(p)) = {}

\* the loop has exited after two renames, one of a directory with files below
C2_Witness ==
    /\ pc = "cond"
    /\ NoReintroduction
    /\ renames >= 2
    /\ \E p \in DOMAIN template : Len(p) = 3 /\ p[2] = Placeholder(N("project_name"))

\* the Substitution Engine of this call has run
PostEngine ==
    /\ pc \in {"jinjify", "rename", "cond", "merge", "check", "done", "edited",
               "failed"}
    /\ Exists(at_marker, Root)

\* C3 as stated: a regular file of the template tree that holds literal L
\* when the engine starts holds "{{ K }}" once the engine has run over
\* keyword_map and _fix_mappings, and holds L no more, unless a rendered
\* placeholder holds L.
C3_RoundTrip ==
    PostEngine =>
        \A i \in 1..Len(keyword_map) : \A f \in DOMAIN at_engine :
            (IsFile(at_engine, f) /\ Contains(at_engine[f].content, keyword_map[i][2]))
            => /\ Contains(at_marker[f].content, Placeholder(keyword_map[i][1]))
               /\ Contains(at_marker[f].content, keyword_map[i][2])
                  => \E j \in 1..Len(keyword_map) :
                        Contains(Placeholder(keyword_map[j][1]), keyword_map[i][2])

\* C3 as amended: a regular file that path_generator yields (its name matches
\* no exclusion pattern) and that holds literal L when the pass of key K
\* starts holds "{{ K }}" right after that pass, and holds L no more unless L
\* can lie over the rendering "{{ K }}" of its own key; later passes may
\* rewrite the text again.
C3_EachPass ==
    (pc = "replace" /\ ki > 1) =>
        LET search == keyword_map[ki - 1][2]
            replace == Placeholder(keyword_map[ki - 1][1])
        IN  \A f \in Scanned(at_key) :
                Contains(at_key[f].content, search)
                => /\ Contains(template[f].content, replace)
                   /\ ~CanOverlap(search, replace)
                      => ~Contains(template[f].content, search)

\* a pass has rewritten a file that held the literal twice
C3_Witness ==
    /\ pc = "replace"
    /\ ki > 1
    /\ \E f \in Scanned(at_key) :
          /\ at_key[f].content = <<"name = ", PKG, "# --- #", PKG>>
          /\ template[f].content # at_key[f].content
          /\ ~CanOverlap(keyword_map[ki - 1][2],
                         Placeholder(keyword_map[ki - 1][1]))

\* the regular files of the overlay that the merge is given
OverlayFiles == {sf \in path_generator(static) : IsFile(static, sf)}

\* C4 as stated: once main() has completed, every file of the tree left by
\* the rename and conditional passes that has the base name X of an overlay
\* file holds the overlay's content, at its path; with no such file, the
\* overlay file is in the root of the template tree.
C4_EveryFile ==
    Completed =>
        \A sf \in {g \in DOMAIN static : IsFile(static, g)} :
            LET same == {f \in DOMAIN at_merge :
                            IsFile(at_merge, f) /\ Name(f) = Name(sf)}
            IN  IF same = {}
                THEN /\ IsFile(template, <<Name(sf)>>)
                     /\ template[<<Name(sf)>>].content = static[sf].content
                ELSE \A f \in same :
                        /\ IsFile(template, f)
                        /\ template[f].content = static[sf].content

\* C4 as amended: once main() has completed, for every overlay file that
\* path_generator yields, with base name X: if current_files holds paths
\* named X, one of them, a regular file (the first in the iteration order of
\* the set), holds the content of an overlay file named X at its path, and
\* every other path named X is as it was; if it holds none, the root of the
\* template tree holds a file X with the content of an overlay file named X.
C4_FirstFile ==
    Completed =>
        \A sf \in OverlayFiles :
            LET same == {f \in path_generator(at_merge) : Name(f) = Name(sf)}
                contents == {static[g].content :
                                g \in {h \in OverlayFiles : Name(h) = Name(sf)}}
            IN  IF same = {}
                THEN /\ IsFile(template, <<Name(sf)>>)
                     /\ template[<<Name(sf)>>].content \in contents
                ELSE \E f \in same :
                        /\ IsFile(at_merge, f)
                        /\ IsFile(template, f)
                        /\ template[f].content \in contents
                        /\ \A g \in same \ {f} :
                              Exists(template, g) /\ template[g] = at_merge[g]

\* main() has completed with two files of one base name in current_files
\* and an overlay file of that name, and an overlay file of a new name
C4_Witness ==
    /\ Completed
    /\ \E sf \in OverlayFiles :
          Cardinality({f \in path_generator(at_merge) : Name(f) = Name(sf)}) >= 2
    /\ \E sf \in OverlayFiles :
          {f \in path_generator(at_merge) : Name(f) = Name(sf)} = {}

\* C5: once the exclude step has run, and through every later stage to the
\* end of main(), no path of to_be_excluded and no path below one exists in
\* the template tree; an entry that was never copied is no error.
C5_Excluded ==
    pc \in {"replace", "jinjify", "rename", "cond", "merge", "check", "done"} =>
        \A i \in 1..Len(to_be_excluded) : \A p \in DOMAIN template :
            ~IsPrefix(to_be_excluded[i], p)

\* main() has completed on a project that holds one excluded directory with
\* a file below it and lacks another entry of the list
C5_Witness ==
    /\ Completed
    /\ \E i \in 1..Len(to_be_excluded) :
          \E p \in DOMAIN source :
              IsPrefix(to_be_excluded[i], p) /\ p # to_be_excluded[i]
    /\ \E i \in 1..Len(to_be_excluded) : ~Exists(source, to_be_excluded[i])

\* C6: a call with --check that completes returns 0 if git diff reported no
\* difference and 1 if it reported differences or failed; git diff runs only
\* once every stage of the build is over; a call without --check that
\* completes returns 0 and runs no git diff.
C6_ExitCode ==
    /\ (Completed /\ check) =>
          /\ returncode \in {0, 1, 128}
          /\ returncode = 0 => ret = 0
          /\ returncode # 0 => ret = 1
    /\ (Completed /\ ~check) => (ret = 0 /\ returncode = -1)
    /\ returncode # -1 =>
          (pc \in {"done", "edited"} /\ visited = path_generator(static))
    /\ ret # -1 => pc \in {"done", "edited"}

\* a call with --check has completed with git itself failing
C6_Witness == Completed /\ check /\ returncode = 128 /\ ret = 1

\* C7 as stated: a call with --check exits 0 when the template tree was the
\* version-controlled copy before the call, and exits 1 when a byte of a
\* tracked file had been changed before the call.  (git runs without error.)
C7_Scenario ==
    (Completed /\ check /\ returncode # 128) =>
        /\ Files(at_start) = committed => ret = 0
        /\ drift => ret = 1

\* C7 as amended: a call with --check exits 0 when the tree that the call
\* itself rebuilds is the version-controlled copy, and 1 when a tracked file
\* of the rebuilt tree differs from it; an edit made in the template tree
\* before the call is thrown away by the rebuild and does not decide the
\* exit code.  (git runs without error.)
C7_RebuiltTree ==
    (Completed /\ check /\ returncode # 128) =>
        /\ ret = 0 <=> ~GitDiffers(template, committed)
        /\ ret = 1 <=> GitDiffers(template, committed)
        /\ \A p \in DOMAIN template : ~Contains(template[p].content, <<"edited">>)

\* a call with --check has exited 0 although a tracked file had been edited
\* before it
C7_Witness == Completed /\ check /\ drift /\ ret = 0 /\ returncode = 0

ConfigBroken ==
    ~config.exists \/ ~config.has_keyword_map \/ ~config.has_conditional_patterns

\* C8: with no file at the configuration path, or a configuration without
\* keyword_map or conditional_patterns, main() fails (FileNotFoundError,
\* KeyError) and the template tree is as it was before the call.
C8_ConfigErrors ==
    /\ (pc = "failed" /\ err \in {"FileNotFoundError", "KeyError"}) =>
          template = at_start
    /\ (ConfigBroken /\ run > 0 /\ pc # "load") =>
          /\ pc = "failed"
          /\ err = IF ~config.exists THEN "FileNotFoundError" ELSE "KeyError"
          /\ template = at_start

\* main() has failed on a configuration without a key, with a template tree
\* in place from before
C8_Witness ==
    /\ pc = "failed"
    /\ err = "KeyError"
    /\ IsFile(template, <<<<"old", ".txt">>>>)

\* the static-file merge has ended well
MergeCompleted == pc \in {"check", "done", "edited"}

\* C9 as stated: if any entry of the static overlay is a directory, whatever
\* its name, the merge fails with NotImplementedError and main() does not
\* complete.
C9_AnyDirectory ==
    (\E p \in DOMAIN static : p # Root /\ IsDir(static, p)) =>
        /\ ~MergeCompleted
        /\ (pc = "failed" /\ ~ConfigBroken) => err = "NotImplementedError"

\* C9 as amended: if any entry of the static overlay that path_generator
\* yields (its name matches no exclusion pattern) is a directory, main()
\* does not complete: the merge raises NotImplementedError when the scan
\* comes to it, unless the unlink() of a directory that has the name of an
\* overlay file met earlier has already ended the merge with an OSError.
C9_YieldedDirectory ==
    (\E p \in path_generator(static) : IsDir(static, p)) =>
        /\ ~MergeCompleted
        /\ (pc = "failed" /\ ~ConfigBroken) =>
              \/ err = "NotImplementedError"
              \/ /\ err = "OSError"
                 /\ \E sf \in visited : \E f \in SameName(sf) : IsDir(template, f)

\* the merge has failed on a directory of the overlay after it had copied an
\* overlay file into the template tree
C9_Witness ==
    /\ pc = "failed"
    /\ err = "NotImplementedError"
    /\ IsFile(template, <<README>>)

\* the conditional-removal pass of this call has run
PostConditional == pc \in {"merge", "check", "done", "edited"}

CondKeys(name) ==
    {i \in 1..Len(conditional_patterns) :
        Contains(name, conditional_patterns[i][1])}

\* C10: the conditional-removal pass renames exactly the regular files whose
\* base name holds the substring of a pair, to "{% if <guard> %}" + stem +
\* "{% endif %}" + ".jinja" in the same directory; every path whose base
\* name holds no substring of a pair keeps its path and content, and no
\* directory is renamed.
C10_OnlyFiles ==
    PostConditional =>
        \A p \in DOMAIN at_cond \ {Root} :
            /\ (IsFile(at_cond, p) /\ Cardinality(CondKeys(Name(p))) = 1) =>
                  LET i == CHOOSE k \in CondKeys(Name(p)) : TRUE
                      new_path == Append(Parent(p),
                                         ConditionalName(conditional_patterns[i][2],
                                                         Stem(Name(p))))
                  IN  /\ ~Exists(at_merge, p)
                      /\ Exists(at_merge, new_path)
                      /\ at_merge[new_path] = at_cond[p]
            /\ CondKeys(Name(p)) = {} =>
                  (Exists(at_merge, p) /\ at_merge[p] = at_cond[p])
            /\ IsDir(at_cond, p) => IsDir(at_merge, p)

\* the marker pass of this call has run
PostMarker == pc \in {"rename", "cond", "merge", "check", "done", "edited"}

\* the files the Substitution Engine of this call has changed
EngineChanged == KeyChanged(at_engine, 1)

\* the name Step 5 gives a changed file
MarkedPath(f) ==
    IF Suffix(Name(f)) = JINJA THEN f ELSE Append(Parent(f), Name(f) \o JINJA)

\* the changed files whose marked name is the path p of another file
TakenBy(p) == {g \in EngineChanged : g # p /\ MarkedPath(g) = p}

Seeded == RemoveExcluded(CopyIncluded(CleanTemplate(NoTree), source, 1), 1)

SkippedOrBelow(p) == \E n \in 1..Len(p) : Skipped(SubSeq(p, 1, n))

\* p of tree t is in tree u under the same base name, at the same depth,
\* with the same node: it has moved at most with a directory above it
KeptName(t, u, p) ==
    \E q \in DOMAIN u : Len(q) = Len(p) /\ Name(q) = Name(p) /\ u[q] = t[p]

\* C14 as stated: a path whose name matches an exclusion pattern, and any
\* path below a cache directory, is never yielded by path_generator: the
\* engine does not rewrite it, the marker pass does not mark it, the rename
\* loop and the conditional pass do not rename it, and the static merge
\* does not match it.
C14_SkippedInside ==
    /\ \A p \in path_generator(template) : ~SkippedOrBelow(p)
    /\ PostEngine =>
          \A p \in DOMAIN at_engine :
              SkippedOrBelow(p) => (Exists(at_marker, p) /\ at_marker[p] = at_engine[p])
    /\ PostMarker =>
          \A p \in DOMAIN at_marker :
              SkippedOrBelow(p) => (Exists(at_loop, p) /\ at_loop[p] = at_marker[p])
    /\ PostConditional =>
          \A p \in DOMAIN at_loop : SkippedOrBelow(p) => KeptName(at_loop, at_merge, p)
    /\ pc = "merge" => \A f \in current_files : ~SkippedOrBelow(f)

\* C14 as amended: a path whose own base name matches an exclusion pattern
\* is never yielded by path_generator: the engine does not rewrite it, the
\* marker pass does not mark it, the rename loop and the conditional pass
\* leave its base name (it moves only with a directory above it that they
\* rename), and the static merge does not match it.  A path below a cache
\* directory whose own name matches no pattern is yielded like any other.
C14_SkippedByName ==
    /\ \A p \in path_generator(template) : ~Skipped(p)
    /\ PostEngine =>
          \A p \in DOMAIN at_engine :
              (p # Root /\ Skipped(p)) =>
                  (Exists(at_marker, p) /\ at_marker[p] = at_engine[p])
    /\ PostMarker =>
          \A p \in DOMAIN at_marker :
              (p # Root /\ Skipped(p)) =>
                  (Exists(at_loop, p) /\ at_loop[p] = at_marker[p])
    /\ PostConditional =>
          \A p \in DOMAIN at_loop :
              (p # Root /\ Skipped(p)) => KeptName(at_loop, at_merge, p)
    /\ pc = "merge" => \A f \in current_files : ~Skipped(f)

\* main() has completed and a compiled file that held the literal, in its
\* name and in its text, holds it still, under a directory that the rename
\* loop has renamed, while the file beside it in the cache directory has
\* been rewritten, marked and renamed
C14_Witness ==
    /\ Completed
    /\ \E p \in DOMAIN template :
          /\ Len(p) > 2
          /\ Skipped(p)
          /\ IsFile(template, p)
          /\ Contains(Name(p), N(PKG))
          /\ Contains(template[p].content, N(PKG))
          /\ Contains(p[2], Placeholder(N("project_name")))
          /\ \E q \in DOMAIN template :
                /\ Parent(q) = Parent(p)
                /\ Suffix(Name(q)) = JINJA
                /\ Contains(Name(q), Placeholder(N("project_name")))

\* text without the whitespace at its ends
Trimmed(text) ==
    LET inner == {i \in 1..Len(text) : text[i] \notin Whitespace}
    IN  IF inner = {} THEN <<>>
        ELSE SubSeq(text, CHOOSE i \in inner : \A j \in inner : i <= j,
                          CHOOSE i \in inner : \A j \in inner : j <= i)

\* text with "_" for every space
Underscored(text) == [i \in 1..Len(text) |-> IF text[i] = " " THEN "_" ELSE text[i]]

\* <parent>/<stem>_<sanitized suffix><ext>
ExpectedUrl(url, suffix) ==
    Append(Parent(url),
           Stem(Name(url)) \o <<"_">> \o Underscored(Trimmed(suffix))
               \o Suffix(Name(url)))

\* C15: a call of gaussian_blur_task with overwrite_input=False that
\* succeeds returns {"image_list_updates": [{"zarr_url": <parent>/<stem>_
\* <sanitized suffix><ext>, "origin": zarr_url}]}; the returned zarr_url is a
\* container of its own, holding the blurred image; the input container is
\* there as it was, with its shape; and every call on the same zarr_url and
\* output_image_suffix has returned the same zarr_url, whatever sigma_xy,
\* sigma_z and overwrite were.
C15_BlurResult ==
    (task_pc = "returned" /\ ~args.overwrite_input) =>
        LET url == ExpectedUrl(args.zarr_url, args.output_image_suffix)
        IN  /\ result = [kind |-> "dict",
                         image_list_updates |->
                             << [zarr_url |-> url, origin |-> args.zarr_url] >>]
            /\ url # args.zarr_url
            /\ url \in DOMAIN zarrs
            /\ zarrs[url].shape = before[args.zarr_url].shape
            /\ zarrs[url].blurs =
                   Append(before[args.zarr_url].blurs, Sigma(args.sigma))
            /\ args.zarr_url \in DOMAIN zarrs
            /\ zarrs[args.zarr_url] = before[args.zarr_url]
            /\ \A u \in urls :
                  (u[1] = args.zarr_url /\ u[2] = args.output_image_suffix)
                      => u[3] = url

\* a call with a suffix that holds spaces and a tab has returned, after a
\* call with another sigma had made the same output
C15_Witness ==
    /\ task_pc = "returned"
    /\ ~args.overwrite_input
    /\ args.output_image_suffix = <<" ", "my", " ", "blur", "\t">>
    /\ result.kind = "dict"
    /\ result.image_list_updates[1].zarr_url \in DOMAIN before
    /\ before[result.image_list_updates[1].zarr_url].blurs
           # zarrs[result.image_list_updates[1].zarr_url].blurs

\* the output image was there when the call started
OutputExisted == output \in DOMAIN before

\* the call is over
CallOver == task_pc \in {"returned", "raised"} /\ calls > 0

\* C16 as stated: in any sequence of calls, a call with overwrite=False
\* that finds the output image raises FileExistsError and leaves the output
\* as it was; a call with overwrite=True, or one that finds no output,
\* succeeds and returns the output URL, the same as every call on that
\* zarr_url and suffix.
C16_OverwriteProtocol ==
    CallOver =>
        /\ (OutputExisted /\ ~args.overwrite) =>
              /\ task_pc = "raised"
              /\ raised = "FileExistsError"
              /\ zarrs = before
        /\ (~OutputExisted \/ args.overwrite) =>
              /\ task_pc = "returned"
              /\ result = image_list_update_dict(
                             ExpectedUrl(args.zarr_url, args.output_image_suffix),
                             args.zarr_url)
              /\ \A u \in urls :
                    (u[1] = args.zarr_url /\ u[2] = args.output_image_suffix)
                        => u[3] = result.image_list_updates[1].zarr_url

\* C16 as amended: in any sequence of calls, a call with overwrite=False
\* that finds the output image raises FileExistsError and leaves the output
\* as it was; a call with overwrite=True, or one that finds no output,
\* makes the output image anew, and with overwrite_input=False it succeeds
\* and returns the output URL, the same as every call on that zarr_url and
\* suffix; with overwrite_input=True it returns None, or is ended by the
\* OSError of os.rename when a container is at the backup path (the output
\* itself, or one that was there before the call).
C16_OverwriteWithoutInput ==
    CallOver =>
        /\ (OutputExisted /\ ~args.overwrite) =>
              /\ task_pc = "raised"
              /\ raised = "FileExistsError"
              /\ zarrs = before
        /\ ((~OutputExisted \/ args.overwrite) /\ ~args.overwrite_input) =>
              /\ task_pc = "returned"
              /\ result = image_list_update_dict(
                             ExpectedUrl(args.zarr_url, args.output_image_suffix),
                             args.zarr_url)
              /\ zarrs[output].blurs =
                     Append(before[args.zarr_url].blurs, Sigma(args.sigma))
              /\ \A u \in urls :
                    (u[1] = args.zarr_url /\ u[2] = args.output_image_suffix)
                        => u[3] = result.image_list_updates[1].zarr_url
        /\ ((~OutputExisted \/ args.overwrite) /\ args.overwrite_input) =>
              \/ task_pc = "returned" /\ result = None
              \/ /\ task_pc = "raised"
                 /\ raised = "OSError"
                 /\ \/ output = backup_path(args.zarr_url)
                    \/ backup_path(args.zarr_url) \in DOMAIN before

\* the third call, with overwrite=False, has raised FileExistsError and the
\* output holds what an earlier call with another sigma wrote
C16_Witness ==
    /\ task_pc = "raised"
    /\ raised = "FileExistsError"
    /\ calls = 3
    /\ args.sigma = <<1, NoSigma>>
    /\ output \in DOMAIN zarrs
    /\ zarrs[output].blurs = <<Sigma(<<2, 1>>)>>
    /\ \E u \in urls : u[3] = output

\* C17: a call of gaussian_blur_task with overwrite_input=True, whatever the
\* output_image_suffix, first makes the blurred image beside the input and
\* then puts it in the place of the input: the call returns None, and after
\* it zarr_url holds the blurred image and neither the output path nor
\* "<stem>_backup<ext>" exists.  (A call that derive_image ends with
\* FileExistsError is left aside.)
C17_OverwriteInput ==
    (args.overwrite_input /\ (~OutputExisted \/ args.overwrite)) =>
        /\ task_pc = "blurred" =>
              /\ zarrs[args.zarr_url] = before[args.zarr_url]
              /\ zarrs[output].blurs =
                     Append(before[args.zarr_url].blurs, Sigma(args.sigma))
        /\ CallOver =>
              /\ task_pc = "returned"
              /\ result = None
              /\ args.zarr_url \in DOMAIN zarrs
              /\ zarrs[args.zarr_url].blurs =
                     Append(before[args.zarr_url].blurs, Sigma(args.sigma))
              /\ output \notin DOMAIN zarrs
              /\ backup_path(args.zarr_url) \notin DOMAIN zarrs

\* the labels written so far
AllWritten == UNION {written[k] : k \in 1..Len(written)}

\* C18: whatever chunks the iterator yields, chunks without an object among
\* them, the non-zero labels written for two different chunks have no value
\* in common, and max_label never goes down: it is the largest label
\* written so far.
C18_UniqueLabels ==
    task_pc \in {"segment", "returned"} =>
        /\ \A i, j \in 1..Len(written) :
              i # j => written[i] \cap written[j] = {}
        /\ max_label = Max(AllWritten \cup {0})

\* ------------------------------------------------- move_path on its own

\* a template_dir with a directory that holds a subtree, a second directory
\* and a file at the top
MoveTree ==
    Tree({ <<<< <<"d">> >>, Dir>>,
           <<<< <<"d">>, <<"x">> >>, File(<<"x">>)>>,
           <<<< <<"d">>, <<"sub">> >>, Dir>>,
           <<<< <<"d">>, <<"sub">>, <<"y">> >>, File(<<"y">>)>>,
           <<<< <<"e">> >>, Dir>>,
           <<<< <<"e">>, <<"x">> >>, File(<<"other">>)>>,
           <<<< <<"f">> >>, File(<<"f">>)>> })

MoveTrees == {MoveTree, Tree({ <<<< <<"f">> >>, File(<<"f">>)>> })}

\* old and new: present and missing paths, one above, below and beside the
\* other, below a missing directory and below a file
MovePaths ==
    { << <<"d">> >>, << <<"d">>, <<"x">> >>, << <<"d">>, <<"sub">> >>,
      << <<"d">>, <<"sub">>, <<"z">> >>, << <<"e">> >>, << <<"e">>, <<"x">> >>,
      << <<"f">> >>, << <<"f">>, <<"x">> >>, << <<"f">>, <<"g">>, <<"x">> >>,
      << <<"a">>, <<"b">>, <<"x">> >>, << <<"nope">> >> }

MoveInit ==
    /\ source = SourceTiny
    /\ static = StaticFlat
    /\ config = ConfigStd
    /\ template \in MoveTrees
    /\ move \in [old : MovePaths, new : MovePaths]
    /\ BuildIdle
    /\ zarrs = Synthetic(DATA, <<64, 64>>)
    /\ TasksIdle

\* move_path(old, new)
MoveCall ==
    /\ pc = "idle"
    /\ at_start' = template
    /\ template' = move_path(template, move.old, move.new)
    /\ err' = move_path_raises(template, move.old, move.new)
    /\ pc' = IF err' = "" THEN "moved" ELSE "failed"
    /\ UNCHANGED <<tasks, move, env, committed, run, check, ret, returncode, ki,
                   path_changed, renames, ci, walk, merge, tampers, at_engine,
                   at_key, at_marker, at_loop, at_cond, at_merge, finals, drift,
                   orders>>

MoveNext == MoveCall

MoveSpec == MoveInit /\ [][MoveNext]_vars

\* the call of move_path is over
MoveOver == pc \in {"moved", "failed"}

\* new holds exactly what old held: the node and, for a directory, its subtree
NewHoldsOld ==
    LET Dest(q) == move.new \o SubSeq(q, Len(move.old) + 1, Len(q))
        held == {q \in DOMAIN at_start : IsPrefix(move.old, q)}
    IN  /\ \A q \in held : Exists(template, Dest(q)) /\ template[Dest(q)] = at_start[q]
        /\ \A r \in DOMAIN template :
              IsPrefix(move.new, r) => \E q \in held : Dest(q) = r

\* a path that is neither old or below it nor new or below it
Elsewhere(q) == ~IsPrefix(move.old, q) /\ ~IsPrefix(move.new, q)

\* old and new are different paths, neither inside the other, and no file
\* stands where new.parent or a directory above it has to be
MoveApart ==
    /\ ~IsPrefix(move.old, move.new)
    /\ ~IsPrefix(move.new, move.old)
    /\ ~\E q \in Prefixes(Parent(move.new)) : IsFile(at_start, q)

\* C19: when old exists, after move_path(old, new) old no longer exists, new
\* holds exactly what old held (a directory with its whole subtree), what was
\* at new before is gone and every other path is unchanged; when old does not
\* exist, move_path raises nothing and changes nothing.
C19_OverwriteMove ==
    MoveOver =>
        IF Exists(at_start, move.old)
        THEN /\ err = ""
             /\ ~Exists(template, move.old)
             /\ Exists(template, move.new)
             /\ NewHoldsOld
             /\ \A q \in DOMAIN at_start \cup DOMAIN template :
                   Elsewhere(q) =>
                       /\ q \in DOMAIN at_start
                       /\ q \in DOMAIN template
                       /\ template[q] = at_start[q]
        ELSE err = "" /\ template = at_start

\* C19, as the code has it: the above holds when new is a path other than old,
\* neither inside the other, and no file stands where a directory above new
\* has to be; then no path at or below old exists, new holds exactly what old
\* held, every other path that existed is unchanged, and the only other paths
\* that are new are the directories above new that were missing, now empty
\* directories on the way to new.  When old does not exist, move_path raises
\* nothing and changes nothing, whatever new is.
C19_MoveApart ==
    MoveOver =>
        IF Exists(at_start, move.old)
        THEN MoveApart =>
                /\ err = ""
                /\ \A q \in DOMAIN template : ~IsPrefix(move.old, q)
                /\ Exists(template, move.new)
                /\ NewHoldsOld
                /\ \A q \in DOMAIN at_start :
                      Elsewhere(q) => Exists(template, q) /\ template[q] = at_start[q]
                /\ \A q \in DOMAIN template :
                      (Elsewhere(q) /\ ~Exists(at_start, q)) =>
                          q \in Prefixes(Parent(move.new)) /\ template[q] = Dir
        ELSE err = "" /\ template = at_start

\* a directory with a subtree has been moved onto a directory that held
\* something else
C19_Witness ==
    /\ pc = "moved"
    /\ MoveApart
    /\ IsDir(at_start, move.old)
    /\ \E q \in DOMAIN at_start : IsPrefix(move.old, q) /\ q # move.old
    /\ IsDir(at_start, move.new)
    /\ \E q \in DOMAIN at_start : IsPrefix(move.new, q) /\ q # move.new
    /\ NewHoldsOld

\* C20: every move_path call of the renaming loop is given a source path
\* that exists at that moment, also for a path inside a directory that an
\* earlier round of the loop renamed.
C20_SourceExists ==
    [][renames' = renames + 1 =>
          /\ Exists(template, move'.old)
          /\ ~Exists(template', move'.old)
          /\ Exists(template', move'.new)]_vars

\* a later round of the loop has renamed a path that did not exist when the
\* loop started: it lies inside a directory renamed by an earlier round
C20_Witness ==
    /\ pc \in {"rename", "cond"}
    /\ renames >= 2
    /\ Len(move.old) >= 2
    /\ ~Exists(at_loop, Parent(move.old))
    /\ Exists(template, move.new)

====
